---- MODULE Spec2Model ----
(***************************************************************************)
(* AFQMC core: the continuous Hubbard-Stratonovich propagator              *)
(* (pauxy/propagation/continuous.py) and the estimator accumulator         *)
(* (afqmcpy/estimators.py).                                                *)
(*                                                                         *)
(* Numbers.  Python floats are modelled exactly on a grid:                 *)
(*   - an additive real (energies, exponents, angles) is <<"fin", n>>,     *)
(*     <<"inf", +-1>> or <<"nan", 0>>; a finite n counts quarters          *)
(*     (One = 4 stands for 1.0).  Real parts are in natural units,         *)
(*     imaginary parts (angles) count quarters of a quarter turn, so an    *)
(*     angle of One is pi/2 and cos, sin are exact on whole quarter turns; *)
(*   - a multiplicative real (weight, modulus) is kept by its logarithm:   *)
(*     <<"pos", lg>> is exp(lg/One), beside <<"zero",0>>, <<"inf",0>>,     *)
(*     <<"nan",0>>, <<"neg", lg>>; so exp and log are exact;               *)
(*   - auxiliary fields and force biases are whole numbers;                *)
(*   - an overlap is kept in polar form, modulus exp(e) and angle of q     *)
(*     quarter turns, or is NaN.                                           *)
(* Arithmetic between a real and a complex number acts on the components.  *)
(***************************************************************************)
EXTENDS Integers, Sequences, FiniteSets, TLC

VARIABLES
    free_projection,   \* Continuous.free_projection
    force_bias,        \* Continuous.force_bias
    opt_force_bias,    \* options['force_bias'] as given by the caller
    nfb_trig,          \* Continuous.nfb_trig
    nhe_trig,          \* Continuous.nhe_trig
    weight,            \* walker.weight
    phase,             \* walker.phase
    ot,                \* walker.ot
    hybrid_energy,     \* walker.hybrid_energy
    field_configs,     \* walker.field_configs: the recorded <<xmxbar, wfac>>
    phi,               \* walker.phi: the operators applied to it so far
    nsteps,            \* number of propagate_walker calls made
    last               \* what the last propagate_walker call saw and computed

pvars == <<free_projection, force_bias, opt_force_bias, nfb_trig, nhe_trig,
           weight, phase, ot, hybrid_energy, field_configs, phi, nsteps, last>>

VARIABLES
    construction,        \* outcome of Estimators.__init__ on every process
    back_propagation,    \* state.back_propagation
    importance_sampling, \* state.importance_sampling
    cplx,                \* state.cplx
    nprocs,              \* state.nprocs
    owner,               \* the process that owns each walker (its shard)
    estimates,           \* Estimators.estimates of each process
    spgf,                \* Estimators.spgf of each process
    bp_counter,          \* w.bp_counter of each walker
    pc,                  \* where each process is in its run
    clock,               \* time.time() of each process
    comm,                \* contributions to comm.Reduce not yet received
    out                  \* the lines the root has emitted

evars == <<construction, back_propagation, importance_sampling, cplx, nprocs,
           owner, estimates, spgf, bp_counter, pc, clock, comm, out>>

VARIABLE
    call                 \* a measurement function called on its own: what it
                         \* was given and how it ended

VARIABLE
    twin                 \* a second Continuous instance with its own walker,
                         \* driven with the fields given to the first

vars == <<pvars, evars, call, twin>>

NoTwin == [on |-> FALSE]

NoCall ==
    [fn |-> "none", args |-> <<>>, raised |-> FALSE, error |-> "none",
     value |-> <<>>]

(* A propagator on its own: no estimator accumulator has been built. *)
NoEstimators ==
    /\ construction = "absent"
    /\ back_propagation = FALSE
    /\ importance_sampling = TRUE
    /\ cplx = TRUE
    /\ nprocs = 1
    /\ owner = <<>>
    /\ estimates = <<>>
    /\ spgf = <<>>
    /\ bp_counter = <<>>
    /\ pc = <<>>
    /\ clock = <<>>
    /\ comm = <<>>
    /\ out = <<>>

-----------------------------------------------------------------------------
(* Bounds and configuration *)

MaxSteps == 2

One == 4

DT == 2

nfields == 2

Abs(n) == IF n < 0 THEN -n ELSE n

-----------------------------------------------------------------------------
(* Additive reals with IEEE special values *)

Fin(n) == <<"fin", n>>
PInf == <<"inf", 1>>
NInf == <<"inf", -1>>
NaN == <<"nan", 0>>

IsFin(x) == x[1] = "fin"
IsInf(x) == x[1] = "inf"
IsNaN(x) == x[1] = "nan"

AAdd(x, y) ==
    IF IsNaN(x) \/ IsNaN(y) THEN NaN
    ELSE IF IsInf(x) THEN (IF IsInf(y) /\ y[2] # x[2] THEN NaN ELSE x)
    ELSE IF IsInf(y) THEN y
    ELSE Fin(x[2] + y[2])

ANeg(x) == IF IsNaN(x) THEN NaN ELSE <<x[1], -x[2]>>

ASub(x, y) == AAdd(x, ANeg(y))

\* k * x for a whole number k
AMulK(k, x) ==
    IF IsNaN(x) THEN NaN
    ELSE IF IsInf(x) THEN (IF k = 0 THEN NaN ELSE IF k > 0 THEN x ELSE ANeg(x))
    ELSE Fin(k * x[2])

\* x / k for a whole number k > 0 that divides every finite x it is given
ADivK(x, k) == IF IsFin(x) THEN Fin(x[2] \div k) ELSE x

\* x > y; a comparison with NaN is false
AGt(x, y) ==
    IF IsNaN(x) \/ IsNaN(y) THEN FALSE
    ELSE IF IsInf(x) THEN x[2] = 1 /\ y # PInf
    ELSE IF IsInf(y) THEN y[2] = -1
    ELSE x[2] > y[2]

ALt(x, y) == AGt(y, x)

-----------------------------------------------------------------------------
(* Multiplicative reals, kept by their logarithm *)

LPos(lg) == <<"pos", lg>>
LOne == <<"pos", 0>>
LZero == <<"zero", 0>>
LInf == <<"inf", 0>>
LNaN == <<"nan", 0>>

\* a * b for non-negative a, b (IEEE: 0 * inf = NaN)
LMul(a, b) ==
    IF a[1] = "nan" \/ b[1] = "nan" THEN LNaN
    ELSE IF a[1] = "zero" THEN (IF b[1] = "inf" THEN LNaN ELSE LZero)
    ELSE IF b[1] = "zero" THEN (IF a[1] = "inf" THEN LNaN ELSE LZero)
    ELSE IF a[1] = "inf" \/ b[1] = "inf"
         THEN (IF a[1] = "neg" \/ b[1] = "neg" THEN <<"ninf", 0>> ELSE LInf)
    ELSE <<(IF a[1] = b[1] THEN "pos" ELSE "neg"), a[2] + b[2]>>

\* math.isinf
IsInfL(a) == a[1] = "inf" \/ a[1] = "ninf"

\* a >= 0 as Python evaluates it (false for NaN)
LGeZero(a) == a[1] \in {"pos", "zero", "inf"}

-----------------------------------------------------------------------------
(* Quarter turns *)

CosQ(q) == CASE q % 4 = 0 -> 1 [] q % 4 = 1 -> 0 [] q % 4 = 2 -> -1 [] OTHER -> 0
SinQ(q) == CASE q % 4 = 0 -> 0 [] q % 4 = 1 -> 1 [] q % 4 = 2 -> 0 [] OTHER -> -1

\* the principal value in (-pi, pi] of an angle of d quarter turns
WrapQ(d) == ((d + 1) % 4) - 1

-----------------------------------------------------------------------------
(* Complex numbers <<re, im>> of additive reals *)

CFin(re, im) == <<Fin(re), Fin(im)>>
CNaN == <<NaN, NaN>>
CAdd(a, b) == <<AAdd(a[1], b[1]), AAdd(a[2], b[2])>>
CSub(a, b) == <<ASub(a[1], b[1]), ASub(a[2], b[2])>>
CNeg(a) == <<ANeg(a[1]), ANeg(a[2])>>
CMulK(k, a) == <<AMulK(k, a[1]), AMulK(k, a[2])>>
CDivK(a, k) == <<ADivK(a[1], k), ADivK(a[2], k)>>
CAddReal(a, r) == <<AAdd(a[1], r), a[2]>>

\* the product of two Gaussian integers <<re, im>>
ZMul(a, b) == <<a[1] * b[1] - a[2] * b[2], a[1] * b[2] + a[2] * b[1]>>

\* |z|^2 of a Gaussian integer
ZNorm2(a) == a[1] * a[1] + a[2] * a[2]

-----------------------------------------------------------------------------
(* Overlaps with the trial wavefunction, in polar form *)

Ov(e, q) == [k |-> "fin", e |-> e, q |-> q]
OvNaN == [k |-> "nan", e |-> 0, q |-> 0]

\* cmath.log(ot_new / walker.ot)
LogRatio(ot_new, ot_old) ==
    IF ot_new.k = "nan" \/ ot_old.k = "nan" THEN CNaN
    ELSE CFin(One * (ot_new.e - ot_old.e), One * WrapQ(ot_new.q - ot_old.q))

-----------------------------------------------------------------------------
(* The inputs of a step: what the collaborators outside the core supply *)

\* numpy.random.normal(0.0, 1.0, system.nfields)
XiVecs == {<<0, 0>>, <<1, 1>>}

\* propagator.construct_force_bias(system, walker, trial)
XbarVecs == {<<0, 0>>, <<1, 0>>, <<2, 0>>, <<2, -2>>, <<-2, 1>>}

\* walker.calc_otrial(trial)
OtVals == {Ov(0, 0), Ov(1, 2), OvNaN}

\* the energy shift handed to propagate_walker
EshiftVals == {CFin(0, 0), CFin(One, 2)}

\* propagator.mf_shift, each component counted in units of sqrt_dt
mf_shift == <<1, 0>>

\* propagator.mf_core
mf_core == Fin(One)

\* walker.hybrid_energy as the walker is handed to the propagator
HybridInit == {CFin(0, 0), <<NInf, Fin(0)>>, <<PInf, Fin(0)>>}

WeightInit == {LOne}

PhaseInit == {<<0, 1>>}

Dot(a, b) == a[1] * b[1] + a[2] * b[2]

-----------------------------------------------------------------------------
(* Continuous.__init__ *)

\* mutant: the 'force_bias' option is taken as given, also with free projection
InitForceBiasOpt(free, opt) == opt

\* self.force_bias after lines 20-24
InitForceBias(free, opt) == IF free THEN FALSE ELSE opt

\* self.mf_const_fac = math.exp(-self.dt*mf_core.real)
mf_const_fac == LPos(AMulK(-DT, mf_core)[2])

\* self.ebound = (2.0/self.dt)**0.5
ebound == Fin(CHOOSE r \in 0..(2 * One) : r * r * DT = 2 * One * One)

-----------------------------------------------------------------------------
(* Continuous.two_body_propagator *)

\* mutant: the clamp loses the sign
ClampOneUnsigned(x) == 1

\* xbar[i] /= numpy.absolute(xbar[i])
ClampOne(x) == x \div Abs(x)

\* mutant: the increment is moved under the print-once guard of line 122
TrigIncFirstOnly(trig, i) == IF trig < 1 THEN trig + 1 ELSE trig

\* self.nfb_trig += 1
TrigInc(trig, i) == trig + 1

\* mutant: the clamp is moved under the print-once guard of line 122
RECURSIVE ClampLoopGuarded(_, _, _)
ClampLoopGuarded(i, xbar, trig) ==
    IF i > nfields THEN [xbar |-> xbar, trig |-> trig]
    ELSE IF Abs(xbar[i]) > 1
         THEN ClampLoopGuarded(i + 1,
                               IF trig < 1
                               THEN [xbar EXCEPT ![i] = ClampOne(xbar[i])]
                               ELSE xbar,
                               TrigInc(trig, i))
         ELSE ClampLoopGuarded(i + 1, xbar, trig)

\* for i in range(system.nfields): ...
RECURSIVE ClampLoop(_, _, _)
ClampLoop(i, xbar, trig) ==
    IF i > nfields THEN [xbar |-> xbar, trig |-> trig]
    ELSE IF Abs(xbar[i]) > 1
         THEN ClampLoop(i + 1, [xbar EXCEPT ![i] = ClampOne(xbar[i])],
                        TrigInc(trig, i))
         ELSE ClampLoop(i + 1, xbar, trig)

\* xbar as constructed: zeros unless self.force_bias
BiasUsed(fb, xbarIn) == IF fb THEN xbarIn ELSE <<0, 0>>

\* xshifted = xi - xbar
Shifted(xi, xbar) == [i \in 1..nfields |-> xi[i] - xbar[i]]

\* cmf = -self.sqrt_dt * xshifted.dot(self.propagator.mf_shift)
\* (sqrt_dt * (k * sqrt_dt) = dt * k)
Cmf(xshifted) == -(DT * One * Dot(xshifted, mf_shift))

\* cfb = xi.dot(xbar) - 0.5*xbar.dot(xbar)
Cfb(xi, xbar) == One * Dot(xi, xbar) - (One \div 2) * Dot(xbar, xbar)

TwoBody(fb, trig, xi, xbarIn) ==
    LET xbar0 == BiasUsed(fb, xbarIn)
        c == ClampLoop(1, xbar0, trig)
        xs == Shifted(xi, c.xbar)
    IN [xbar0 |-> xbar0, xbar |-> c.xbar, trig |-> c.trig, xshifted |-> xs,
        cmf |-> Cmf(xs), cfb |-> Cfb(xi, c.xbar)]

\* kinetic_real, apply_exponential, kinetic_real on walker.phi
PhiAfter(p, xs) ==
    p \o <<[op |-> "BH1", x |-> <<>>], [op |-> "expVHS", x |-> xs],
           [op |-> "BH1", x |-> <<>>]>>

-----------------------------------------------------------------------------
(* Continuous.apply_bound *)

\* real + 1j*imag, as eshift.real+self.ebound+1j*ehyb.imag builds it
RealPlusIImag(re, im) == <<AAdd(re, AMulK(0, im)), im>>

\* mutant: the lower bound is applied but not counted
ApplyBoundLowerUncounted(ehyb, eshift, nhe) ==
    IF AGt(ehyb[1], AAdd(eshift[1], ebound))
    THEN [ehyb |-> RealPlusIImag(AAdd(eshift[1], ebound), ehyb[2]),
          nhe |-> nhe + 1]
    ELSE IF ALt(ehyb[1], ASub(eshift[1], ebound))
    THEN [ehyb |-> RealPlusIImag(ASub(eshift[1], ebound), ehyb[2]),
          nhe |-> nhe]
    ELSE [ehyb |-> ehyb, nhe |-> nhe]

ApplyBound(ehyb, eshift, nhe) ==
    IF AGt(ehyb[1], AAdd(eshift[1], ebound))
    THEN [ehyb |-> RealPlusIImag(AAdd(eshift[1], ebound), ehyb[2]),
          nhe |-> nhe + 1]
    ELSE IF ALt(ehyb[1], ASub(eshift[1], ebound))
    THEN [ehyb |-> RealPlusIImag(ASub(eshift[1], ebound), ehyb[2]),
          nhe |-> nhe + 1]
    ELSE [ehyb |-> ehyb, nhe |-> nhe]

-----------------------------------------------------------------------------
(* Library functions on the grid *)

\* abs(cmath.exp(z)), the modulus cmath.polar returns
ExpMod(z) ==
    IF IsNaN(z[1]) THEN LNaN
    ELSE IF z[1] = PInf THEN LInf
    ELSE IF z[1] = NInf THEN LZero
    ELSE IF IsFin(z[2]) THEN LPos(z[1][2]) ELSE LNaN

\* math.cos of an angle that is a whole number of quarter turns, or NaN
Cos(a) == IF IsNaN(a) THEN NaN ELSE Fin(CosQ(a[2] \div One))

\* max(0, x): x when x > 0, else 0 (so 0 for NaN)
MaxZero(x) == IF AGt(x, Fin(0)) THEN x ELSE Fin(0)

\* the float -1.0, 0.0 or 1.0 (or NaN) as a multiplicative real
ToL(x) ==
    IF IsNaN(x) THEN LNaN
    ELSE IF x[2] > 0 THEN LOne ELSE IF x[2] = 0 THEN LZero ELSE <<"neg", 0>>

\* cmath.exp(1j*dtheta) for dtheta a whole number of quarter turns
Cis(a) == <<CosQ(a[2] \div One), SinQ(a[2] \div One)>>

\* ln(1e-16) on the grid: magn > 1e-16 iff its logarithm is at least this
MagnFloor == -147

\* magn > 1e-16
AboveFloor(m) == m[1] = "inf" \/ (m[1] = "pos" /\ m[2] >= MagnFloor)

-----------------------------------------------------------------------------
(* Continuous.propagate_walker_phaseless *)

\* hybrid_energy = -(cmath.log(ovlp_ratio) + cfb + cmf)/self.dt
HybridEnergy(ot_new, ot_old, cfb, cmf) ==
    CDivK(CNeg(CAddReal(CAddReal(LogRatio(ot_new, ot_old), Fin(cfb)), Fin(cmf))),
          DT)

\* -self.dt*(0.5*(hybrid_energy+walker.hybrid_energy)-eshift)
ImportanceExponent(ehyb, ehyb_old, eshift) ==
    CNeg(CDivK(CMulK(DT, CSub(CAdd(ehyb, ehyb_old), CMulK(2, eshift))), 2))

\* the modulus of self.mf_const_fac * cmath.exp(...)
ImportanceModulus(z) == LMul(mf_const_fac, ExpMod(z))

\* dtheta = (-self.dt*hybrid_energy-cfb).imag
Dtheta(ehyb) == AMulK(-DT, ehyb[2])

\* mutant: the record is made whatever the modulus
FiniteBranchAlways(magn) == TRUE

\* the guard of line 221
FiniteBranch(magn) == ~IsInfL(magn)

\* walker.weight *= magn * cosine_fac
WeightUpdate(w, magn, cosine_fac) == LMul(w, LMul(magn, ToL(cosine_fac)))

\* wfac, lines 229-232
Wfac(magn, z, cosine_fac) ==
    IF AboveFloor(magn) THEN <<[m |-> 1, a |-> z[2]], cosine_fac>>
    ELSE <<[m |-> 0, a |-> Fin(0)], Fin(0)>>

NoStep ==
    [op |-> "none", xi |-> <<0, 0>>, xbar0 |-> <<0, 0>>, xbar |-> <<0, 0>>,
     xshifted |-> <<0, 0>>, eshift |-> CFin(0, 0), ot_new |-> Ov(0, 0),
     ehyb0 |-> CFin(0, 0), ehyb |-> CFin(0, 0), magn |-> LOne,
     cosine_fac |-> Fin(0), dtheta |-> Fin(0),
     w0 |-> LOne, phase0 |-> <<1, 0>>, nfb0 |-> 0, nhe0 |-> 0, nfc0 |-> 0,
     trace |-> <<>>]

(* walker.field_configs.update(xmxbar, wfac): the walker classes are not    *)
(* part of the sources at hand; the history is an append-only buffer       *)
FieldConfigsUpdate(configs, xmxbar, wfac) == Append(configs, <<xmxbar, wfac>>)

(* the walker a step is given, and the walker and counters it leaves *)
TheWalker ==
    [weight |-> weight, phase |-> phase, ot |-> ot,
     hybrid_energy |-> hybrid_energy, field_configs |-> field_configs,
     phi |-> phi]

(* the calls and assignments of propagate_walker_phaseless on the walker,   *)
(* in the order of the source, lines 199-239                               *)
PhaselessTrace(finite) ==
    <<"kinetic_real", "two_body_propagator", "kinetic_real",
      "inverse_overlap", "greens_function", "calc_otrial",
      "walker.hybrid_energy">>
    \o (IF finite
        THEN <<"walker.weight", "walker.ot", "walker.field_configs">>
        ELSE <<"walker.ot", "walker.weight">>)

(* propagate_walker_phaseless on walker w by an instance whose counters    *)
(* are nfb and nhe: what it leaves, with the values computed on the way    *)
PhaselessResult(fb, nfb, nhe, w, xi, xbarIn, ot_new, eshift) ==
    LET tb == TwoBody(fb, nfb, xi, xbarIn)
        ehyb0 == HybridEnergy(ot_new, w.ot, tb.cfb, tb.cmf)
        ab == ApplyBound(ehyb0, eshift, nhe)
        z == ImportanceExponent(ab.ehyb, w.hybrid_energy, eshift)
        magn == ImportanceModulus(z)
        dtheta == Dtheta(ab.ehyb)
        cosine_fac == MaxZero(Cos(dtheta))
    IN  [nfb_trig |-> tb.trig,
         nhe_trig |-> ab.nhe,
         walker |->
            [weight |-> IF FiniteBranch(magn)
                        THEN WeightUpdate(w.weight, magn, cosine_fac)
                        ELSE LZero,
             phase |-> w.phase,
             ot |-> ot_new,
             hybrid_energy |-> ab.ehyb,
             field_configs |->
                IF FiniteBranch(magn)
                THEN FieldConfigsUpdate(w.field_configs, tb.xshifted,
                                        Wfac(magn, z, cosine_fac))
                ELSE w.field_configs,
             phi |-> PhiAfter(w.phi, tb.xshifted)],
         tb |-> tb, ehyb0 |-> ehyb0, magn |-> magn,
         cosine_fac |-> cosine_fac, dtheta |-> dtheta,
         trace |-> PhaselessTrace(FiniteBranch(magn))]

propagate_walker_phaseless(xi, xbarIn, ot_new, eshift) ==
    /\ ~free_projection
    /\ nsteps < MaxSteps
    /\ \E r \in {PhaselessResult(force_bias, nfb_trig, nhe_trig, TheWalker,
                                  xi, xbarIn, ot_new, eshift)} :
          /\ phi' = r.walker.phi
          /\ nfb_trig' = r.nfb_trig
          /\ nhe_trig' = r.nhe_trig
          /\ hybrid_energy' = r.walker.hybrid_energy
          /\ weight' = r.walker.weight
          /\ ot' = r.walker.ot
          /\ field_configs' = r.walker.field_configs
          /\ last' = [op |-> "phaseless", xi |-> xi, xbar0 |-> r.tb.xbar0,
                      xbar |-> r.tb.xbar, xshifted |-> r.tb.xshifted,
                      eshift |-> eshift, ot_new |-> ot_new,
                      ehyb0 |-> r.ehyb0, ehyb |-> r.walker.hybrid_energy,
                      magn |-> r.magn, cosine_fac |-> r.cosine_fac,
                      dtheta |-> r.dtheta,
                      w0 |-> weight, phase0 |-> phase, nfb0 |-> nfb_trig,
                      nhe0 |-> nhe_trig, nfc0 |-> Len(field_configs),
                      trace |-> r.trace]
    /\ nsteps' = nsteps + 1
    /\ UNCHANGED <<free_projection, force_bias, opt_force_bias, phase>>

-----------------------------------------------------------------------------
(* Continuous.propagate_walker_free *)

\* the angle cmath.polar(cmath.exp(z)) returns, in (-pi, pi]
PolarAngle(z) == Fin(One * WrapQ(z[2][2] \div One))

\* mutant: the energy shift is left out of the constant factor
FreeExponentNoShift(cmf, eshift) == CFin(cmf, 0)

\* cmf+self.dt*eshift
FreeExponent(cmf, eshift) == CAddReal(CMulK(DT, eshift), Fin(cmf))

(* mutant: the weight is multiplied before the Green's function is rebuilt *)
FreeTraceWeightEarly ==
    <<"kinetic_real", "two_body_propagator", "kinetic_real",
      "inverse_overlap", "calc_otrial", "walker.ot", "walker.weight",
      "greens_function", "walker.phase">>

(* the calls and assignments of propagate_walker_free on the walker, in    *)
(* the order of the source, lines 163-175                                  *)
FreeTrace ==
    <<"kinetic_real", "two_body_propagator", "kinetic_real",
      "inverse_overlap", "calc_otrial", "walker.ot", "greens_function",
      "walker.weight", "walker.phase">>

(* propagate_walker_free on walker w by an instance whose counters are nfb *)
(* and nhe                                                                 *)
FreeResult(fb, nfb, nhe, w, xi, xbarIn, ot_new, eshift) ==
    LET tb == TwoBody(fb, nfb, xi, xbarIn)
        z == FreeExponent(tb.cmf, eshift)
        magn == ExpMod(z)
        dtheta == PolarAngle(z)
    IN  [nfb_trig |-> tb.trig,
         nhe_trig |-> nhe,
         walker |->
            [weight |-> LMul(w.weight, magn),
             phase |-> ZMul(w.phase, Cis(dtheta)),
             ot |-> ot_new,
             hybrid_energy |-> w.hybrid_energy,
             field_configs |-> w.field_configs,
             phi |-> PhiAfter(w.phi, tb.xshifted)],
         tb |-> tb, magn |-> magn, dtheta |-> dtheta, trace |-> FreeTrace]

propagate_walker_free(xi, xbarIn, ot_new, eshift) ==
    /\ free_projection
    /\ nsteps < MaxSteps
    /\ \E r \in {FreeResult(force_bias, nfb_trig, nhe_trig, TheWalker,
                             xi, xbarIn, ot_new, eshift)} :
          /\ phi' = r.walker.phi
          /\ nfb_trig' = r.nfb_trig
          /\ ot' = r.walker.ot
          /\ weight' = r.walker.weight
          /\ phase' = r.walker.phase
          /\ last' = [op |-> "free", xi |-> xi, xbar0 |-> r.tb.xbar0,
                      xbar |-> r.tb.xbar, xshifted |-> r.tb.xshifted,
                      eshift |-> eshift, ot_new |-> ot_new,
                      ehyb0 |-> CFin(0, 0), ehyb |-> CFin(0, 0),
                      magn |-> r.magn, cosine_fac |-> Fin(0),
                      dtheta |-> r.dtheta, w0 |-> weight, phase0 |-> phase,
                      nfb0 |-> nfb_trig, nhe0 |-> nhe_trig,
                      nfc0 |-> Len(field_configs), trace |-> r.trace]
    /\ nsteps' = nsteps + 1
    /\ UNCHANGED <<free_projection, force_bias, opt_force_bias, nhe_trig,
                   hybrid_energy, field_configs>>

-----------------------------------------------------------------------------
(* The propagator: construction, then any sequence of steps on a walker *)

(* Continuous.__init__ and the walker handed to the first step *)
InitContinuous ==
    /\ free_projection \in BOOLEAN
    /\ opt_force_bias \in BOOLEAN
    /\ force_bias = InitForceBias(free_projection, opt_force_bias)
    /\ nfb_trig = 0
    /\ nhe_trig = 0
    /\ weight \in WeightInit
    /\ phase \in PhaseInit
    /\ ot = Ov(0, 0)
    /\ hybrid_energy \in HybridInit
    /\ field_configs = <<>>
    /\ phi = <<>>
    /\ nsteps = 0
    /\ last = NoStep
    /\ NoEstimators
    /\ call = NoCall

InitP == InitContinuous /\ twin = NoTwin

StepPhaseless ==
    \E xi \in XiVecs, xbarIn \in XbarVecs, ot_new \in OtVals,
       eshift \in EshiftVals :
        /\ propagate_walker_phaseless(xi, xbarIn, ot_new, eshift)
        /\ UNCHANGED <<evars, call, twin>>

StepFree ==
    \E xi \in XiVecs, xbarIn \in XbarVecs, ot_new \in OtVals,
       eshift \in EshiftVals :
        /\ propagate_walker_free(xi, xbarIn, ot_new, eshift)
        /\ UNCHANGED <<evars, call, twin>>

NextP == StepPhaseless \/ StepFree

SpecP == InitP /\ [][NextP]_vars

-----------------------------------------------------------------------------
(* Two instances that differ in their clamp counters only, each with its   *)
(* own copy of the walker, given the same fields at every step             *)

TwinCounters == {<<1, 0>>, <<3, 2>>}

InitT ==
    /\ InitContinuous
    /\ hybrid_energy = CFin(0, 0)
    /\ \E c \in TwinCounters :
         twin = [on |-> TRUE, nfb_trig |-> c[1], nhe_trig |-> c[2],
                 walker |-> TheWalker]

TwinAfter(r) ==
    [on |-> TRUE, nfb_trig |-> r.nfb_trig, nhe_trig |-> r.nhe_trig,
     walker |-> r.walker]

TwinPhaseless ==
    \E xi \in XiVecs, xbarIn \in XbarVecs, ot_new \in OtVals,
       eshift \in EshiftVals :
        /\ propagate_walker_phaseless(xi, xbarIn, ot_new, eshift)
        /\ twin' = TwinAfter(PhaselessResult(force_bias, twin.nfb_trig,
                                             twin.nhe_trig, twin.walker,
                                             xi, xbarIn, ot_new, eshift))
        /\ UNCHANGED <<evars, call>>

TwinFree ==
    \E xi \in XiVecs, xbarIn \in XbarVecs, ot_new \in OtVals,
       eshift \in EshiftVals :
        /\ propagate_walker_free(xi, xbarIn, ot_new, eshift)
        /\ twin' = TwinAfter(FreeResult(force_bias, twin.nfb_trig,
                                        twin.nhe_trig, twin.walker,
                                        xi, xbarIn, ot_new, eshift))
        /\ UNCHANGED <<evars, call>>

NextT == TwinPhaseless \/ TwinFree

SpecT == InitT /\ [][NextT]_vars

-----------------------------------------------------------------------------
(* Properties of the propagator, stated on the last step taken *)

Stepped == last.op # "none"
Fields == 1..nfields
Sign(n) == IF n > 0 THEN 1 ELSE IF n < 0 THEN -1 ELSE 0
Triggering(xb) == {i \in Fields : Abs(xb[i]) > 1}
BoundHi(es) == AAdd(es[1], ebound)
BoundLo(es) == ASub(es[1], ebound)
OutsideBound(e, es) == ~(~ALt(e[1], BoundLo(es)) /\ ~AGt(e[1], BoundHi(es)))
InsideBound(e, es) ==
    /\ IsFin(e[1])
    /\ e[1][2] >= BoundLo(es)[2]
    /\ e[1][2] <= BoundHi(es)[2]

(* C1: after any sequence of phaseless steps from weight >= 0 and
   |phase| = 1, the walker's weight is >= 0 and its phase has modulus 1. *)
C1_WeightNonNegPhaseUnit ==
    ~free_projection => (LGeZero(weight) /\ ZNorm2(phase) = 1)

(* C2: in a phaseless step whose importance-factor modulus is infinite or
   NaN, the weight is set to exactly zero and the stored overlap is replaced
   by the newly computed one. *)
C2_NonFiniteModulusZeroesWeight ==
    (last.op = "phaseless" /\ last.magn[1] \in {"inf", "nan"})
        => (weight = LZero /\ ot = last.ot_new)

(* C3, as claimed: a call of two_body_propagator with at least one bias
   component of magnitude > 1 increases nfb_trig by exactly one, however many
   components triggered; a call with none leaves it unchanged. *)
C3_OncePerCall ==
    Stepped =>
        nfb_trig = last.nfb0 + (IF Triggering(last.xbar0) # {} THEN 1 ELSE 0)

(* C3, amended: each call of two_body_propagator increases nfb_trig by the
   number of bias components whose magnitude exceeds 1 in that call. *)
C3_OncePerComponent ==
    Stepped => nfb_trig = last.nfb0 + Cardinality(Triggering(last.xbar0))

C3_Witness ==
    /\ Stepped
    /\ Cardinality(Triggering(last.xbar0)) = 2
    /\ nfb_trig = last.nfb0 + 2

(* C4: every bias component of magnitude > 1 is replaced by the value of
   magnitude 1 with the same sign, every other component is unchanged, and
   the shifted field, the one the two-body propagator is built from, is the
   sampled field minus this clamped bias. *)
C4_ClampedBias ==
    Stepped =>
        /\ \A i \in Fields :
              /\ Abs(last.xbar0[i]) > 1 => last.xbar[i] = Sign(last.xbar0[i])
              /\ Abs(last.xbar0[i]) <= 1 => last.xbar[i] = last.xbar0[i]
              /\ Abs(last.xbar[i]) <= 1
              /\ last.xshifted[i] = last.xi[i] - last.xbar[i]
        /\ phi[Len(phi) - 1] = [op |-> "expVHS", x |-> last.xshifted]

C4_Witness ==
    /\ Stepped
    /\ last.xbar0 = <<2, -2>>
    /\ last.xbar = <<1, -1>>
    /\ last.xshifted = <<0, 2>>

(* C5: with free_projection enabled force bias is disabled whatever the
   'force_bias' option says, and nfb_trig is zero after any number of
   steps. *)
C5_FreeProjectionNoBias ==
    free_projection => (force_bias = FALSE /\ nfb_trig = 0)

C5_Witness ==
    /\ free_projection
    /\ opt_force_bias
    /\ nsteps >= 2
    /\ nfb_trig = 0

(* C6, as claimed: apply_bound returns a hybrid energy whose real part lies
   in [eshift.real - ebound, eshift.real + ebound] and whose imaginary part
   is that of its input; nhe_trig increases by exactly one when the input's
   real part was outside the interval and is unchanged otherwise; the step
   continues in either case. *)
C6_BoundAlways ==
    last.op = "phaseless" =>
        /\ InsideBound(last.ehyb, last.eshift)
        /\ last.ehyb[2] = last.ehyb0[2]
        /\ nhe_trig = last.nhe0
                      + (IF InsideBound(last.ehyb0, last.eshift) THEN 0 ELSE 1)
        /\ hybrid_energy = last.ehyb

(* C6, amended: for a finite hybrid energy apply_bound returns one whose
   real part lies in [eshift.real - ebound, eshift.real + ebound] and whose
   imaginary part is that of its input; nhe_trig increases by exactly one
   when the input's real part was outside the interval and is unchanged
   otherwise; the step continues in either case.  A NaN hybrid energy is
   returned as it is and not counted. *)
C6_BoundFinite ==
    last.op = "phaseless" =>
        /\ (IsFin(last.ehyb0[1]) /\ IsFin(last.ehyb0[2])) =>
              /\ InsideBound(last.ehyb, last.eshift)
              /\ last.ehyb[2] = last.ehyb0[2]
              /\ nhe_trig = last.nhe0
                     + (IF InsideBound(last.ehyb0, last.eshift) THEN 0 ELSE 1)
        /\ IsNaN(last.ehyb0[1]) =>
              (last.ehyb = last.ehyb0 /\ nhe_trig = last.nhe0)
        /\ hybrid_energy = last.ehyb
        /\ nsteps > 0

C6_Witness ==
    /\ last.op = "phaseless"
    /\ IsFin(last.ehyb0[1])
    /\ ALt(last.ehyb0[1], BoundLo(last.eshift))
    /\ last.ehyb[1] = BoundLo(last.eshift)
    /\ nhe_trig = last.nhe0 + 1
    /\ last.nhe0 = 1

(* C7: a free-projection step multiplies the weight by the modulus of
   exp(cmf + dt*eshift) alone and the phase by the unit-modulus rotation of
   that factor's argument; it leaves nhe_trig alone, applies no cosine
   projection and never sets the weight to zero. *)
C7_FreeStep ==
    last.op = "free" =>
        /\ weight = LMul(last.w0,
                         LPos(Cmf(last.xshifted) + DT * last.eshift[1][2]))
        /\ phase = ZMul(last.phase0,
                        <<CosQ((DT * last.eshift[2][2]) \div One),
                          SinQ((DT * last.eshift[2][2]) \div One)>>)
        /\ ZNorm2(phase) = 1
        /\ nhe_trig = last.nhe0
        /\ hybrid_energy \in HybridInit
        /\ weight[1] = "pos"

C7_Witness ==
    /\ last.op = "free"
    /\ nsteps = 2
    /\ last.eshift = CFin(One, 2)
    /\ phase = <<0, -1>>
    /\ weight # last.w0

(* C16: the clamp counters are informational.  After any sequence of steps *)
(* the walker of an instance that started from other counter values has    *)
(* the same determinant, weight, phase, overlap, hybrid energy and field   *)
(* history as the walker of this instance                                  *)
C16_CountersInformational == twin.on => twin.walker = TheWalker

(* two steps that clamped the bias and bounded the hybrid energy, taken by *)
(* instances whose counters differ                                         *)
C16_Witness ==
    /\ twin.on
    /\ nsteps = MaxSteps
    /\ nfb_trig >= 2
    /\ nhe_trig >= 1
    /\ twin.nfb_trig # nfb_trig
    /\ twin.nhe_trig # nhe_trig
    /\ field_configs # <<>>

(* the modulus of the last step is a finite number *)
FiniteModulus(step) == step.magn[1] \in {"pos", "zero"}

(* C19: a phaseless step whose importance-factor modulus is finite appends *)
(* exactly one entry, the field xi - xbar with its two reweighting         *)
(* factors; one whose modulus is infinite appends nothing; and no step of  *)
(* either policy removes or rewrites an earlier entry                      *)
C19_FieldHistory ==
    [][/\ Len(field_configs') >= Len(field_configs)
       /\ SubSeq(field_configs', 1, Len(field_configs)) = field_configs
       /\ last'.op = "phaseless" /\ FiniteModulus(last')
            => /\ Len(field_configs') = Len(field_configs) + 1
               /\ field_configs'[Len(field_configs')][1]
                     = Shifted(last'.xi, last'.xbar)
               /\ Len(field_configs'[Len(field_configs')][2]) = 2
               /\ AboveFloor(last'.magn)
                     => field_configs'[Len(field_configs')][2][2]
                          = last'.cosine_fac
       /\ last'.op = "phaseless" /\ IsInfL(last'.magn)
            => field_configs' = field_configs
       /\ last'.op = "free" => field_configs' = field_configs]_vars

(* a first step with an infinite modulus recorded nothing; the second, with *)
(* a finite modulus, recorded its field                                    *)
C19_Witness ==
    /\ last.op = "phaseless"
    /\ nsteps = 2
    /\ FiniteModulus(last)
    /\ last.nfc0 = 0
    /\ Len(field_configs) = 1

(* where the steps of the template stand in the last step taken *)
At(e) == {n \in 1..Len(last.trace) : last.trace[n] = e}
Recomputed == At("inverse_overlap") \cup At("calc_otrial")
                \cup At("greens_function")
Before(S, R) == \A m \in S : \A n \in R : m < n
Policy == IF free_projection THEN "free" ELSE "phaseless"
TemplateHead ==
    /\ last.op = Policy
    /\ Len(phi) = 3 * nsteps
    /\ SubSeq(phi, Len(phi) - 2, Len(phi))
         = <<[op |-> "BH1", x |-> <<>>], [op |-> "expVHS", x |-> last.xshifted],
             [op |-> "BH1", x |-> <<>>]>>
    /\ SubSeq(last.trace, 1, 3)
         = <<"kinetic_real", "two_body_propagator", "kinetic_real">>
    /\ Cardinality(Recomputed) = 3
    /\ Before({3}, Recomputed)

(* C20 as stated: both policies apply half-step, two-body step, half-step, *)
(* recompute the overlap and the Green's function, and change the weight,  *)
(* phase, stored overlap or hybrid energy only after that; the policy is   *)
(* the one chosen at construction                                          *)
C20_TemplateStrict ==
    Stepped =>
        /\ TemplateHead
        /\ Before(Recomputed,
                  At("walker.weight") \cup At("walker.phase")
                    \cup At("walker.ot") \cup At("walker.hybrid_energy"))

(* C20 amended: as stated for the weight, the phase and the hybrid energy; *)
(* the stored overlap changes after the overlap is recomputed, which under *)
(* free projection is before the Green's function is rebuilt               *)
C20_Template ==
    Stepped =>
        /\ TemplateHead
        /\ Before(Recomputed,
                  At("walker.weight") \cup At("walker.phase")
                    \cup At("walker.hybrid_energy"))
        /\ Before(At("inverse_overlap") \cup At("calc_otrial"),
                  At("walker.ot"))
        /\ At("walker.ot") # {} /\ At("walker.weight") # {}
        /\ last.op = "phaseless" => Before(Recomputed, At("walker.ot"))
        /\ last.op = "free" => Before(At("walker.ot"), At("greens_function"))

(* a second step of the free-projection policy *)
C20_Witness ==
    /\ nsteps = 2
    /\ last.op = "free"
    /\ free_projection
    /\ weight # last.w0

-----------------------------------------------------------------------------
(***************************************************************************)
(* The estimator accumulator (afqmcpy/estimators.py).                      *)
(*                                                                         *)
(* Numbers.  The buffers are numpy float64 arrays.  A float is modelled    *)
(* here as an exact fraction <<n, d>> in lowest terms with d > 0, beside   *)
(* <<1, 0>> (inf), <<-1, 0>> (-inf) and <<0, 0>> (nan); every arithmetic   *)
(* operation rounds its exact result to MantissaBits significant bits,     *)
(* to nearest, ties to even, as IEEE arithmetic does with 53 bits.  The    *)
(* exponent range is not bounded and zero has no sign.                     *)
(***************************************************************************)

MantissaBits == 6

RECURSIVE Pow2(_)
Pow2(k) == IF k = 0 THEN 1 ELSE 2 * Pow2(k - 1)

RECURSIVE GCD(_, _)
GCD(a, b) == IF b = 0 THEN a ELSE GCD(b, a % b)

Rat(n, d) ==
    IF d = 1 THEN <<n, 1>>
    ELSE IF d = 0 THEN <<Sign(n), 0>>
    ELSE IF n >= 0 THEN <<n \div GCD(n, d), d \div GCD(n, d)>>
    ELSE <<-((-n) \div GCD(-n, d)), d \div GCD(-n, d)>>

RInt(n) == <<n, 1>>
RZero == RInt(0)
RNaN == <<0, 0>>
RIsFinite(a) == a[2] # 0

(* exact results *)
RAddX(a, b) ==
    IF a[2] = 0 /\ b[2] = 0
    THEN (IF a = b THEN a ELSE RNaN)
    ELSE Rat(a[1] * b[2] + b[1] * a[2], a[2] * b[2])
RNegX(a) == <<-a[1], a[2]>>
RMulX(a, b) == Rat(a[1] * b[1], a[2] * b[2])
RDivX(a, b) ==
    IF b[2] # 0 /\ b[1] = 0
    THEN Rat(a[1], 0)
    ELSE Rat(a[1] * b[2] * Sign(b[1]), a[2] * Abs(b[1]))

MantissaEnd == Pow2(MantissaBits)
MantissaStart == Pow2(MantissaBits - 1)

(* n/d in MantissaStart..MantissaEnd to the nearest whole number, ties to even *)
Nearest(n, d) ==
    IF 2 * (n % d) > d \/ (2 * (n % d) = d /\ (n \div d) % 2 = 1)
    THEN (n \div d) + 1
    ELSE n \div d

(* n/d > 0 rounded to MantissaBits significant bits; the value is          *)
(* (n/d) * (up/down) with n/d brought into the mantissa's range            *)
RECURSIVE RoundPos(_, _, _, _)
RoundPos(n, d, up, down) ==
    IF n >= MantissaEnd * d THEN RoundPos(n, 2 * d, 2 * up, down)
    ELSE IF n < MantissaStart * d THEN RoundPos(2 * n, d, up, 2 * down)
    ELSE Rat(Nearest(n, d) * up, down)

Round(q) ==
    IF q[2] = 0 \/ q[1] = 0 THEN q
    ELSE IF q[2] = 1 /\ q[1] < MantissaEnd /\ -q[1] < MantissaEnd THEN q
    ELSE IF q[1] > 0 THEN RoundPos(q[1], q[2], 1, 1)
    ELSE RNegX(RoundPos(-q[1], q[2], 1, 1))

(* float64 operations *)
FAdd(a, b) == Round(RAddX(a, b))
FSub(a, b) == Round(RAddX(a, RNegX(b)))
FMul(a, b) == Round(RMulX(a, b))
FDiv(a, b) == Round(RDivX(a, b))

(* f[1] + ... + f[n] added from the left, starting from zero *)
RECURSIVE FSumTo(_, _)
FSumTo(f, n) == IF n = 0 THEN RZero ELSE FAdd(FSumTo(f, n - 1), f[n])

RECURSIVE FSum(_, _)
FSum(acc, xs) ==
    IF xs = <<>> THEN acc ELSE FSum(FAdd(acc, Head(xs)), Tail(xs))

-----------------------------------------------------------------------------
(* The run: system, walker population, configuration *)

nbasis == 2
Basis == 1..nbasis
T == <<<<0, -1>>, <<-1, 0>>>>
U == 4

nmeasure == 2
NBlocks == 2
RunSteps == NBlocks * nmeasure
itcf_nmax == 2
nback_prop == 1
ProcCounts == {1, 2, 4}

nwalkers == 4
Walkers == 1..nwalkers

(* w.weight of walker i at step s; walker 3 is dead *)
BaseW == <<1, 5, 0, 1>>
WalkerWeight(i, s) == BaseW[i] * s * s

(* w.G: the walker's Green's function, one matrix for each spin *)
WalkerG ==
    << << <<<<1, 0>>, <<0, 0>>>>, <<<<1, 0>>, <<0, 0>>>> >>,
       << <<<<1, 1>>, <<0, 0>>>>, <<<<0, 0>>, <<0, 1>>>> >>,
       << <<<<0, 0>>, <<1, 1>>>>, <<<<1, 1>>, <<0, 0>>>> >>,
       << <<<<1, 0>>, <<0, 0>>>>, <<<<1, 1>>, <<0, 0>>>> >> >>

(* w.ot: overlap with the trial wavefunction *)
WalkerOt == <<1, 2, 1, -1>>

(* the up-spin determinants wt.phi[0] of psi_n and wb.phi[0] of psi_bp *)
PhiN == <<<<1, 0>>, <<1, 1>>, <<0, 1>>, <<1, 1>>>>
PhiBP == <<<<1, 1>>, <<1, 0>>, <<1, 1>>, <<1, 2>>>>

(* w.bp_auxf, one field configuration for each recorded step: the walkers  *)
(* of the run hold at most nback_prop + itcf_nmax of them                  *)
BpAuxf ==
    << <<<<0, 0>>, <<1, 0>>>>, <<<<0, 1>>, <<0, 1>>, <<1, 0>>>>,
       <<<<1, 1>>, <<1, 0>>, <<0, 1>>>>, <<<<0, 0>>, <<1, 1>>>> >>

(* a history with one recorded step more than that *)
LongAuxf == <<<<0, 0>>, <<1, 1>>, <<0, 1>>, <<1, 0>>>>

(* sum of an integer-valued function over 1..n *)
RECURSIVE SumTo(_, _)
SumTo(f, n) == IF n = 0 THEN 0 ELSE f[n] + SumTo(f, n - 1)

(* a matrix of whole numbers as a matrix of floats *)
AsFloat(M) == [i \in Basis |-> [j \in Basis |-> RInt(M[i][j])]]

(* numpy.sum(system.T * (G[0] + G[1])), the entries taken row by row, and  *)
(* sum(system.U*G[0][i][i]*G[1][i][i] for i in range(0, system.nbasis))    *)
local_energy(G) ==
    LET ke == FSumTo([i \in Basis |->
                       FSumTo([j \in Basis |->
                                FMul(RInt(T[i][j]),
                                     FAdd(G[1][i][j], G[2][i][j]))], nbasis)],
                     nbasis)
        pe == FSumTo([i \in Basis |->
                       FMul(FMul(RInt(U), G[1][i][i]), G[2][i][i])], nbasis)
    IN  <<FAdd(ke, pe), ke, pe>>

(* the local energies of the population are whole numbers *)
WalkerEnergy(i) ==
    SumTo([k \in Basis |->
            SumTo([j \in Basis |->
                    T[k][j] * (WalkerG[i][1][k][j] + WalkerG[i][2][k][j])],
                  nbasis)
            + U * WalkerG[i][1][k][k] * WalkerG[i][2][k][k]], nbasis)

(* w.E_L: the stored complex local energy, <<real, imaginary>> *)
WalkerEL(i) == <<RInt(WalkerEnergy(i)), RInt(i)>>

(* the walker object handed to update at step s *)
Walker(i, s) ==
    [weight |-> RInt(WalkerWeight(i, s)),
     E_L |-> WalkerEL(i),
     G |-> <<AsFloat(WalkerG[i][1]), AsFloat(WalkerG[i][2])>>,
     ot |-> RInt(WalkerOt[i])]

-----------------------------------------------------------------------------
(* Estimators.__init__, EstimatorEnum, zero *)

header == <<"iteration", "Weight", "E_num", "E_denom", "E", "time">>
back_propagated_header == <<"iteration", "E", "T", "V">>

nestimators(bp) ==
    IF bp THEN Len(header \o back_propagated_header) - 2 ELSE Len(header)

(* the argument __init__ gives to EstimatorEnum *)
EnumArgument(bp) == IF bp THEN nestimators(bp) ELSE nestimators(bp) + 3

(* EstimatorEnum unpacks range(n) into eight names *)
EnumNames ==
    <<"weight", "enumer", "edenom", "eproj", "time", "evar", "kin", "pot">>
EstimatorEnumOk(n) == n = Len(EnumNames)
ns == [weight |-> 0, enumer |-> 1, edenom |-> 2, eproj |-> 3,
       time |-> 4, evar |-> 5, kin |-> 6, pot |-> 7]

SpgfLen == (itcf_nmax + 1) * nbasis * nbasis
BufLen(bp) == nestimators(bp) + SpgfLen
Slots == 0..(BufLen(TRUE) - 1)

ZeroMatrix == [i \in Basis |-> [j \in Basis |-> RZero]]
ZeroSpgf == [ic \in 1..(itcf_nmax + 1) |-> ZeroMatrix]

(* self.spgf.flatten() laid out from slot ns.pot+1 *)
SpgfAt(g, k) ==
    LET o == k - (ns.pot + 1)
        ic == o \div (nbasis * nbasis)
        i == (o % (nbasis * nbasis)) \div nbasis
        j == o % nbasis
    IN  g[ic + 1][i + 1][j + 1]

(* mutant of the reset: the scalar fields only *)
ZeroScalars(es, g, now) ==
    [estimates |-> [k \in Slots |-> IF k = ns.time THEN now
                                    ELSE IF k <= ns.pot THEN RZero ELSE es[k]],
     spgf |-> g]

zero(es, g, now) ==
    [estimates |-> [k \in Slots |-> IF k = ns.time THEN now ELSE RZero],
     spgf |-> ZeroSpgf]

-----------------------------------------------------------------------------
(* Estimators.update *)

UpdateEstimates(es, w, is, cx) ==
    IF is
    THEN [es EXCEPT
            ![ns.enumer] =
                FAdd(@, FMul(w.weight,
                             IF cx THEN w.E_L[1]
                                   ELSE local_energy(w.G)[1])),
            ![ns.weight] = FAdd(@, w.weight),
            ![ns.edenom] = FAdd(@, w.weight)]
    ELSE [es EXCEPT
            ![ns.enumer] =
                FAdd(@, FMul(FMul(w.weight, local_energy(w.G)[1]),
                             w.ot)),
            ![ns.weight] = FAdd(@, w.weight),
            ![ns.edenom] = FAdd(@, FMul(w.weight, w.ot))]

-----------------------------------------------------------------------------
(* gab and Estimators.calculate_itcf *)

Identity == [i \in Basis |-> [j \in Basis |-> RInt(IF i = j THEN 1 ELSE 0)]]
MAdd(A, B) == [i \in Basis |-> [j \in Basis |-> FAdd(A[i][j], B[i][j])]]
MSub(A, B) == [i \in Basis |-> [j \in Basis |-> FSub(A[i][j], B[i][j])]]

(* mutant of the product: G.dot(Bi[0]), the propagator on the right *)
MDotRight(Bi, G) ==
    [i \in Basis |-> [j \in Basis |->
        FSumTo([k \in Basis |-> FMul(G[i][k], RInt(Bi[k][j]))], nbasis)]]

(* Bi[0].dot(G): Bi has whole-number entries *)
MDot(Bi, G) ==
    [i \in Basis |-> [j \in Basis |->
        FSumTo([k \in Basis |-> FMul(RInt(Bi[i][k]), G[k][j])], nbasis)]]

(* A and B have one occupied orbital, so (A.conj().T).dot(B) is 1 x 1 *)
Overlap(A, B) == SumTo([k \in Basis |-> A[k] * B[k]], nbasis)

(* mutant of gab: one minus the matrix of the docstring's formula *)
gabComplement(A, B) ==
    LET inv_O == FDiv(RInt(1), RInt(Overlap(A, B)))
    IN  [raised |-> Overlap(A, B) = 0,
         GAB |-> [i \in Basis |-> [j \in Basis |->
                    FSub(RInt(IF i = j THEN 1 ELSE 0),
                         FMul(RInt(B[j]), FMul(inv_O, RInt(A[i]))))]]]

(* scipy.linalg.inv raises LinAlgError on a matrix that is exactly         *)
(* singular; gab makes no check of its own and catches nothing             *)
gab(A, B) ==
    LET inv_O == FDiv(RInt(1), RInt(Overlap(A, B)))
    IN  [raised |-> Overlap(A, B) = 0,
         GAB |-> [i \in Basis |-> [j \in Basis |->
                    FMul(RInt(B[j]), FMul(inv_O, RInt(A[i])))]]]

(* afqmcpy.propagation.construct_propagator_matrix(state, config)[0]: not  *)
(* part of the sources at hand; a matrix that depends on the configuration *)
(* and does not commute with the others                                    *)
construct_propagator_matrix(config) ==
    <<<<1 + config[1], config[2]>>, <<0, 1>>>>

(* mutant of the weighting: the snapshot weight without the denominator *)
WeightedUnnormalised(G, w, denominator) ==
    [i \in Basis |-> [j \in Basis |-> FMul(w, G[i][j])]]

(* wnm.weight*G[0] / denominator *)
Weighted(G, w, denominator) ==
    [i \in Basis |-> [j \in Basis |-> FDiv(FMul(w, G[i][j]), denominator)]]

(* w.bp_auxf[:, nback_prop:].T *)
Replayed(w) == SubSeq(w.bp_auxf, nback_prop + 1, Len(w.bp_auxf))

(* the loop over the recorded fields of one walker; G[1] is propagated     *)
(* too but never stored. self.spgf has the slices 0..itcf_nmax and the     *)
(* loop makes no check of ic+1: numpy raises IndexError on reading a slice *)
(* past the end, with the earlier slices already written. done counts the  *)
(* iterations that reached line 262                                        *)
RECURSIVE ItcfReplay(_, _, _, _, _, _)
ItcfReplay(g, G, configs, ic, w, denominator) ==
    IF configs = <<>> THEN [spgf |-> g, raised |-> FALSE, done |-> ic]
    ELSE IF ic + 1 > itcf_nmax THEN [spgf |-> g, raised |-> TRUE, done |-> ic]
    ELSE \* slice ic+1 of the tensor is g[ic + 2]
         LET G1 == MDot(construct_propagator_matrix(Head(configs)), G) IN
         ItcfReplay([g EXCEPT ![ic + 2] = MAdd(@, Weighted(G1, w, denominator))],
                    G1, Tail(configs), ic + 1, w, denominator)

(* the length of zip(...): that of the shortest collection *)
ZipLen(colls) ==
    CHOOSE n \in {Len(colls[c]) : c \in DOMAIN colls} :
        \A c \in DOMAIN colls : n <= Len(colls[c])

(* sum(w.weight for w in psi) *)
TotalWeight(psi) == FSum(RInt(0), [k \in 1..Len(psi) |-> psi[k].weight])

(* the loop over zip(psi, psi_nm, psi_n, psi_bp) from its k-th tuple: the  *)
(* tensor it leaves, the exception that ended it if one did, and the       *)
(* walkers of psi whose bp_counter it has reset                            *)
RECURSIVE ItcfWalkers(_, _, _, _, _, _, _, _)
ItcfWalkers(g, reset, k, psi, psi_nm, psi_n, psi_bp, denominator) ==
    IF k > ZipLen(<<psi, psi_nm, psi_n, psi_bp>>)
    THEN [spgf |-> g, raised |-> FALSE, error |-> "none", reset |-> reset]
    ELSE LET up == gab(psi_bp[k].phi[1], psi_n[k].phi[1])
             down == gab(psi_bp[k].phi[2], psi_n[k].phi[2])
             G0 == MSub(Identity, up.GAB)
             g0 == [g EXCEPT ![1] =
                        MAdd(@, Weighted(G0, psi_nm[k].weight, denominator))]
             r == ItcfReplay(g0, G0, Replayed(psi[k]), 0,
                             psi_nm[k].weight, denominator)
             reset1 == IF r.done > 0 THEN reset \cup {k} ELSE reset
         IN  IF up.raised \/ down.raised
             THEN [spgf |-> g, raised |-> TRUE, error |-> "LinAlgError",
                   reset |-> reset]
             ELSE IF r.raised
             THEN [spgf |-> r.spgf, raised |-> TRUE, error |-> "IndexError",
                   reset |-> reset1]
             ELSE ItcfWalkers(r.spgf, reset1, k + 1, psi, psi_nm, psi_n,
                              psi_bp, denominator)

ItcfSpgf(g, psi, psi_nm, psi_n, psi_bp) ==
    ItcfWalkers(g, {}, 1, psi, psi_nm, psi_n, psi_bp, TotalWeight(psi_nm))

(* mutant of the loop: each triple weighted by the earlier walker's weight *)
RECURSIVE EnergyWalkersEarlier(_, _, _, _, _)
EnergyWalkersEarlier(acc, k, psi, psit, psib) ==
    IF k > ZipLen(<<psi, psit, psib>>)
    THEN [estimates |-> acc, raised |-> FALSE]
    ELSE LET up == gab(psib[k].phi[1], psit[k].phi[1])
             down == gab(psib[k].phi[2], psit[k].phi[2])
             E == local_energy(<<up.GAB, down.GAB>>)
         IN  IF up.raised \/ down.raised
             THEN [estimates |-> acc, raised |-> TRUE]
             ELSE EnergyWalkersEarlier([n \in 1..3 |->
                                          FAdd(acc[n],
                                               FMul(psit[k].weight, E[n]))],
                                       k + 1, psi, psit, psib)

(* back_propagated_energy: the loop over zip(psi, psit, psib) from its     *)
(* k-th tuple                                                              *)
RECURSIVE EnergyWalkers(_, _, _, _, _)
EnergyWalkers(acc, k, psi, psit, psib) ==
    IF k > ZipLen(<<psi, psit, psib>>)
    THEN [estimates |-> acc, raised |-> FALSE]
    ELSE LET up == gab(psib[k].phi[1], psit[k].phi[1])
             down == gab(psib[k].phi[2], psit[k].phi[2])
             E == local_energy(<<up.GAB, down.GAB>>)
         IN  IF up.raised \/ down.raised
             THEN [estimates |-> acc, raised |-> TRUE]
             ELSE EnergyWalkers([n \in 1..3 |->
                                   FAdd(acc[n],
                                        FMul(psi[k].weight, E[n]))],
                                k + 1, psi, psit, psib)

back_propagated_energy(psi, psit, psib) ==
    LET denominator == TotalWeight(psi)
        loop == EnergyWalkers(<<RZero, RZero, RZero>>, 1, psi, psit, psib)
    IN  [raised |-> loop.raised,
         value |-> [n \in 1..3 |-> FDiv(loop.estimates[n], denominator)]]

(* the collections the driver hands to calculate_itcf for a shard *)
Psi(shard) ==
    [k \in 1..Len(shard) |->
        [weight |-> RInt(BaseW[shard[k]]),
         phi |-> <<PhiN[shard[k]], PhiN[shard[k]]>>,
         bp_auxf |-> BpAuxf[shard[k]]]]
PsiBP(shard) ==
    [k \in 1..Len(shard) |->
        [weight |-> RInt(BaseW[shard[k]]),
         phi |-> <<PhiBP[shard[k]], PhiBP[shard[k]]>>,
         bp_auxf |-> BpAuxf[shard[k]]]]

-----------------------------------------------------------------------------
(* Estimators.print_step *)

Eproj(es, np) ==
    FDiv(FMul(RInt(nmeasure), es[ns.enumer]), FMul(RInt(np), es[ns.edenom]))

(* the buffer handed to comm.Reduce, lines 137-140 *)
BeforeReduce(es, g, now, np) ==
    [k \in Slots |->
        IF k = ns.eproj THEN Eproj(es, np)
        ELSE IF k = ns.time THEN FDiv(FSub(now, es[ns.time]), RInt(np))
        ELSE IF k > ns.pot THEN SpgfAt(g, k)
        ELSE es[k]]

(* mutant of the reduction: the root's own buffer only *)
ReduceRootOnly(bufs) == bufs[1]

(* MPI.SUM over the ranks, taken in rank order *)
ReduceSum(bufs) ==
    [k \in Slots |->
        FSum(bufs[1][k], [q \in 1..(Len(bufs) - 1) |-> bufs[q + 1][k]])]

(* mutant of the normalisation: the fields before the projected energy *)
NormalisePreEnergy(gl) ==
    [k \in Slots |-> IF k < ns.eproj THEN FDiv(gl[k], RInt(nmeasure))
                     ELSE gl[k]]

(* global_estimates[:ns.time] / state.nmeasure *)
Normalise(gl) ==
    [k \in Slots |-> IF k < ns.time THEN FDiv(gl[k], RInt(nmeasure))
                     ELSE gl[k]]

(* mutant of the line: the projected energy as the ratio of the reduced    *)
(* numerator to the reduced denominator                                    *)
LineRatioOfTotals(gl) ==
    [k \in 0..(ns.evar - 1) |->
        IF k = ns.eproj THEN FDiv(gl[ns.enumer], gl[ns.edenom]) ELSE gl[k]]

(* list(global_estimates[:ns.evar]) *)
Line(gl) == [k \in 0..(ns.evar - 1) |-> gl[k]]

(* list(global_estimates[ns.evar:ns.pot+1]/state.nprocs) *)
BpLine(gl, np) == [k \in ns.evar..ns.pot |-> FDiv(gl[k], RInt(np))]

-----------------------------------------------------------------------------
(* The processes of a run *)

Procs == 1..nprocs
Root == 1
Shard(p) == SelectSeq([i \in Walkers |-> i], LAMBDA i : owner[i] = p)

(* each process owns a contiguous, non-empty shard *)
Owners(np) ==
    {o \in [Walkers -> 1..np] :
        /\ \A q \in 1..np : \E i \in Walkers : o[i] = q
        /\ \A i, j \in Walkers : i <= j => o[i] <= o[j]}

update(p) ==
    /\ construction = "constructed"
    /\ pc[p].at = "update"
    /\ \E shard \in {Shard(p)} :
        /\ estimates' = [estimates EXCEPT ![p] =
               UpdateEstimates(@, Walker(shard[pc[p].idx], pc[p].step),
                               importance_sampling, cplx)]
        /\ pc' = [pc EXCEPT ![p] =
               IF @.idx < Len(shard) THEN [@ EXCEPT !.idx = @ + 1]
               ELSE IF @.step % nmeasure = 0 THEN [@ EXCEPT !.at = "itcf"]
               ELSE [step |-> @.step + 1, idx |-> 1, at |-> "update"]]
    /\ clock' = [clock EXCEPT ![p] = @ + 1]
    /\ UNCHANGED <<construction, back_propagation, importance_sampling, cplx,
                   nprocs, owner, spgf, bp_counter, comm, out>>
    /\ UNCHANGED <<pvars, call, twin>>

calculate_itcf(p) ==
    /\ construction = "constructed"
    /\ pc[p].at = "itcf"
    /\ \E shard \in {Shard(p)} :
       \E r \in {ItcfSpgf(spgf[p], Psi(shard), Psi(shard), Psi(shard),
                           PsiBP(shard))} :
        /\ spgf' = [spgf EXCEPT ![p] = r.spgf]
        /\ bp_counter' = [i \in Walkers |->
                            IF \E k \in r.reset : shard[k] = i THEN 0
                            ELSE bp_counter[i]]
    /\ pc' = [pc EXCEPT ![p].at = "print"]
    /\ clock' = [clock EXCEPT ![p] = @ + 1]
    /\ UNCHANGED <<construction, back_propagation, importance_sampling, cplx,
                   nprocs, owner, estimates, comm, out>>
    /\ UNCHANGED <<pvars, call, twin>>

(* print_step up to the call of comm.Reduce, which takes the contribution *)
print_step_reduce(p) ==
    /\ construction = "constructed"
    /\ pc[p].at = "print"
    /\ \E es \in {BeforeReduce(estimates[p], spgf[p], RInt(clock[p] + 1),
                               nprocs)} :
        /\ estimates' = [estimates EXCEPT ![p] = es]
        /\ comm' = [comm EXCEPT ![p] = Append(@, es)]
    /\ pc' = [pc EXCEPT ![p].at = "reduce"]
    /\ clock' = [clock EXCEPT ![p] = @ + 1]
    /\ UNCHANGED <<construction, back_propagation, importance_sampling, cplx,
                   nprocs, owner, spgf, bp_counter, out>>
    /\ UNCHANGED <<pvars, call, twin>>

(* mutant of the collective: the root takes the latest call of a rank *)
ContributionLatest(queue) == queue[Len(queue)]

(* comm.Reduce pairs the calls of the ranks in the order they are made *)
Contribution(queue) == Head(queue)

(* print_step from the return of comm.Reduce: at the root the sum of one   *)
(* contribution of every process, elsewhere the untouched zeros            *)
print_step_emit(p) ==
    /\ construction = "constructed"
    /\ pc[p].at = "reduce"
    /\ p = Root => \A q \in Procs : comm[q] # <<>>
    /\ \E recv \in {IF p = Root THEN [q \in Procs |-> Contribution(comm[q])]
                    ELSE <<>>} :
       \E reduced \in {IF p = Root THEN ReduceSum(recv)
                       ELSE [k \in Slots |-> RZero]} :
       \E gl \in {Normalise(reduced)} :
        /\ out' = IF p = Root
                  THEN Append(out, [step |-> pc[p].step,
                                    line |-> Line(gl),
                                    bp |-> IF back_propagation
                                           THEN BpLine(gl, nprocs) ELSE <<>>,
                                    reduced |-> reduced,
                                    recv |-> recv])
                  ELSE out
        /\ comm' = IF p = Root THEN [q \in Procs |-> Tail(comm[q])] ELSE comm
    /\ \E z \in {zero(estimates[p], spgf[p], RInt(clock[p] + 1))} :
        /\ estimates' = [estimates EXCEPT ![p] = z.estimates]
        /\ spgf' = [spgf EXCEPT ![p] = z.spgf]
    /\ pc' = [pc EXCEPT ![p] =
               IF @.step = RunSteps THEN [@ EXCEPT !.at = "done"]
               ELSE [step |-> @.step + 1, idx |-> 1, at |-> "update"]]
    /\ clock' = [clock EXCEPT ![p] = @ + 1]
    /\ UNCHANGED <<construction, back_propagation, importance_sampling, cplx,
                   nprocs, owner, bp_counter>>
    /\ UNCHANGED <<pvars, call, twin>>

(* Estimators alone: no propagator step is taken *)
NoPropagator ==
    /\ free_projection = FALSE
    /\ opt_force_bias = FALSE
    /\ force_bias = FALSE
    /\ nfb_trig = 0
    /\ nhe_trig = 0
    /\ weight = LOne
    /\ phase = <<0, 1>>
    /\ ot = Ov(0, 0)
    /\ hybrid_energy = CFin(0, 0)
    /\ field_configs = <<>>
    /\ phi = <<>>
    /\ nsteps = 0
    /\ last = NoStep
    /\ twin = NoTwin

InitE ==
    /\ NoPropagator
    /\ call = NoCall
    /\ back_propagation \in BOOLEAN
    /\ importance_sampling \in BOOLEAN
    /\ cplx \in BOOLEAN
    /\ nprocs \in ProcCounts
    /\ owner \in Owners(nprocs)
    /\ construction = IF EstimatorEnumOk(EnumArgument(back_propagation))
                      THEN "constructed" ELSE "ValueError"
    /\ \E z \in {zero([k \in Slots |-> RZero], ZeroSpgf, RInt(0))} :
        /\ estimates = [p \in Procs |-> z.estimates]
        /\ spgf = [p \in Procs |-> z.spgf]
    /\ bp_counter = [i \in Walkers |-> 1]
    /\ pc = [p \in Procs |-> [step |-> 1, idx |-> 1, at |-> "update"]]
    /\ clock = [p \in Procs |-> 0]
    /\ comm = [p \in Procs |-> <<>>]
    /\ out = <<>>

NextE ==
    \E p \in Procs :
        \/ update(p)
        \/ calculate_itcf(p)
        \/ print_step_reduce(p)
        \/ print_step_emit(p)

SpecE == InitE /\ [][NextE]_vars

-----------------------------------------------------------------------------
(* The measurement functions called directly on one accumulator with       *)
(* back-propagation enabled, each on collections chosen by the caller      *)

(* a walker as the measurement functions see it *)
MWalker(w, up, down, auxf) ==
    [weight |-> RInt(w), phi |-> <<up, down>>, bp_auxf |-> auxf]

Dets == {<<1, 0>>, <<0, 1>>, <<1, 1>>, <<1, 2>>, <<1, -1>>, <<1, 8>>,
         <<7, -1>>}

Collections ==
    LET a == MWalker(1, <<1, 0>>, <<1, 0>>, BpAuxf[1])
        b == MWalker(5, <<1, 2>>, <<0, 1>>, BpAuxf[2])
        c == MWalker(3, <<1, 1>>, <<1, 2>>, BpAuxf[3])
        d == MWalker(2, <<0, 1>>, <<1, 1>>, BpAuxf[4])
        e == MWalker(1, <<1, -1>>, <<1, 0>>, BpAuxf[1])
        f == MWalker(1, <<1, 8>>, <<1, 1>>, BpAuxf[2])
        h == MWalker(1, <<7, -1>>, <<1, 1>>, BpAuxf[3])
        l == MWalker(2, <<1, 1>>, <<1, 0>>, LongAuxf)
    IN  {<<a>>, <<b>>, <<c>>, <<e>>, <<f>>, <<h>>, <<l>>, <<a, d>>, <<c, b>>,
         <<d, c, a>>}

CallGab(A, B) ==
    /\ call.fn = "none"
    /\ \E r \in {gab(A, B)} :
        call' = [fn |-> "gab", args |-> <<A, B>>, raised |-> r.raised,
                 error |-> IF r.raised THEN "LinAlgError" ELSE "none",
                 value |-> IF r.raised THEN <<>> ELSE r.GAB]
    /\ UNCHANGED <<pvars, evars, twin>>

(* self.estimates[evar:pot+1] = back_propagated_energy(system, psi, psit,  *)
(* psib): nothing is assigned when the call raises                         *)
update_back_propagated_observables(psi, psit, psib) ==
    /\ call.fn = "none"
    /\ \E r \in {back_propagated_energy(psi, psit, psib)} :
        /\ call' = [fn |-> "back_propagated_energy",
                    args |-> <<psi, psit, psib>>, raised |-> r.raised,
                    error |-> IF r.raised THEN "LinAlgError" ELSE "none",
                    value |-> IF r.raised THEN <<>> ELSE r.value]
        /\ estimates' =
              IF r.raised THEN estimates
              ELSE [estimates EXCEPT ![Root] =
                      [k \in Slots |->
                          IF k \in ns.evar..ns.pot
                          THEN r.value[k - ns.evar + 1] ELSE @[k]]]
    /\ UNCHANGED <<construction, back_propagation, importance_sampling, cplx,
                   nprocs, owner, spgf, bp_counter, pc, clock, comm, out>>
    /\ UNCHANGED <<pvars, twin>>

(* calculate_itcf on collections of the caller: what was accumulated       *)
(* before an exception stays in self.spgf                                  *)
CallItcf(psi, psi_nm, psi_n, psi_bp) ==
    /\ call.fn = "none"
    /\ \E r \in {ItcfSpgf(spgf[Root], psi, psi_nm, psi_n, psi_bp)} :
        /\ call' = [fn |-> "calculate_itcf",
                    args |-> <<psi, psi_nm, psi_n, psi_bp>>,
                    raised |-> r.raised, error |-> r.error,
                    value |-> r.reset]
        /\ spgf' = [spgf EXCEPT ![Root] = r.spgf]
    /\ UNCHANGED <<construction, back_propagation, importance_sampling, cplx,
                   nprocs, owner, estimates, bp_counter, pc, clock, comm, out>>
    /\ UNCHANGED <<pvars, twin>>

InitM ==
    /\ NoPropagator
    /\ call = NoCall
    /\ back_propagation = TRUE
    /\ importance_sampling = TRUE
    /\ cplx = TRUE
    /\ nprocs = 1
    /\ owner = [i \in Walkers |-> Root]
    /\ construction = IF EstimatorEnumOk(EnumArgument(back_propagation))
                      THEN "constructed" ELSE "ValueError"
    /\ \E z \in {zero([k \in Slots |-> RZero], ZeroSpgf, RInt(0))} :
        /\ estimates = [p \in Procs |-> z.estimates]
        /\ spgf = [p \in Procs |-> z.spgf]
    /\ bp_counter = [i \in Walkers |-> 1]
    /\ pc = [p \in Procs |-> [step |-> 0, idx |-> 0, at |-> "measure"]]
    /\ clock = [p \in Procs |-> 0]
    /\ comm = [p \in Procs |-> <<>>]
    /\ out = <<>>

NextM ==
    \/ \E A, B \in Dets : CallGab(A, B)
    \/ \E psi, psit, psib \in Collections :
          update_back_propagated_observables(psi, psit, psib)
    \/ \E psi, psi_nm, psi_n, psi_bp \in Collections :
          CallItcf(psi, psi_nm, psi_n, psi_bp)

SpecM == InitM /\ [][NextM]_vars

-----------------------------------------------------------------------------
(* Properties of the measurement functions, stated on the call made *)

Called(fn) == call.fn = fn
OnCollections == Called("back_propagated_energy") \/ Called("calculate_itcf")
Lengths == {Len(call.args[c]) : c \in DOMAIN call.args}
Mismatched == OnCollections /\ Cardinality(Lengths) > 1
BufferUntouched ==
    /\ \A k \in Slots : estimates[Root][k] = RZero
    /\ spgf[Root] = ZeroSpgf

(* C11: back_propagated_energy and calculate_itcf, given collections of    *)
(* unequal lengths, fail instead of producing an estimate from the         *)
(* truncated pairing: the call raises and leaves the buffer as it was      *)
C11_MismatchFailsFast == Mismatched => call.raised /\ BufferUntouched

(* the overlap of A and B is below an eighth of the product of their norms *)
NearSingular(A, B) ==
    64 * Overlap(A, B) * Overlap(A, B) < Overlap(A, A) * Overlap(B, B)

(* C12: gab detects a singular or near-singular overlap matrix and fails   *)
(* with a distinct error instead of returning a matrix                     *)
C12_SingularityDetected ==
    Called("gab") /\ NearSingular(call.args[1], call.args[2]) => call.raised

(* A with one column of unit length, given as both arguments of gab *)
OrthonormalPair ==
    /\ Called("gab")
    /\ call.args[1] = call.args[2]
    /\ Overlap(call.args[1], call.args[1]) = 1
Projector(A) == [i \in Basis |-> [j \in Basis |-> RInt(A[i] * A[j])]]

(* C13 as stated: for an orthonormal A, gab(A, A) is the projector         *)
(* complement I - A.A^T                                                    *)
C13_ProjectorComplement ==
    OrthonormalPair =>
        ~call.raised /\ call.value = MSub(Identity, Projector(call.args[1]))

(* C13 amended: for an orthonormal A, gab(A, A) is the projector A.A^T     *)
(* itself, so that I - gab(A, A) is the complement                         *)
C13_Projector ==
    OrthonormalPair =>
        /\ ~call.raised
        /\ call.value = Projector(call.args[1])
        /\ MSub(Identity, call.value)
              = [i \in Basis |-> [j \in Basis |->
                    RInt((IF i = j THEN 1 ELSE 0)
                         - call.args[1][i] * call.args[1][j])]]

C13_Witness == OrthonormalPair /\ call.args[1] = <<0, 1>>

(* exact comparison and size of finite fractions *)
RLeX(a, b) == a[1] * b[2] <= b[1] * a[2]
RAbsX(a) == <<Abs(a[1]), a[2]>>
RECURSIVE RSumX(_, _)
RSumX(f, n) == IF n = 0 THEN RZero ELSE RAddX(RSumX(f, n - 1), f[n])

(* x is exact up to r roundings of quantities whose sizes add up to size *)
WithinRounding(x, exact, size, r) ==
    /\ RIsFinite(x)
    /\ RLeX(RMulX(RAbsX(RAddX(x, RNegX(exact))), RInt(MantissaEnd - r)),
            RMulX(RInt(r), size))

IsPowerOfTwo(w) == \E n \in 0..MantissaBits : w = RInt(Pow2(n))

(* a call of calculate_itcf on index-aligned collections that returned *)
AlignedItcf ==
    /\ Called("calculate_itcf")
    /\ Cardinality(Lengths) = 1
    /\ ~call.raised
ItcfLen == Len(call.args[2])
SnapshotWeight(k) == call.args[2][k].weight

(* I - gab(wb.phi[0], wt.phi[0]) of the k-th walkers of psi_bp and psi_n *)
ItcfG(k) ==
    MSub(Identity, gab(call.args[4][k].phi[1], call.args[3][k].phi[1]).GAB)

(* the average of the matrices ItcfG(k), each with its snapshot weight     *)
(* divided by the sum of the snapshot weights, in exact arithmetic; and    *)
(* the same with every term replaced by its size                           *)
ItcfAverage(i, j) ==
    RDivX(RSumX([k \in 1..ItcfLen |-> RMulX(SnapshotWeight(k), ItcfG(k)[i][j])],
                ItcfLen),
          RSumX([k \in 1..ItcfLen |-> SnapshotWeight(k)], ItcfLen))
ItcfAverageSize(i, j) ==
    RDivX(RSumX([k \in 1..ItcfLen |->
                   RMulX(SnapshotWeight(k), RAbsX(ItcfG(k)[i][j]))], ItcfLen),
          RSumX([k \in 1..ItcfLen |-> SnapshotWeight(k)], ItcfLen))

SingleTrivialItcf == AlignedItcf /\ ItcfLen = 1 /\ call.args[3] = call.args[4]

(* C14 as stated: for one walker with psib == psit slice 0 is exactly      *)
(* I - gab(psib, psit), and for aligned walkers it is the average of these *)
(* matrices with the normalised snapshot weights                           *)
C14_SliceZeroExact ==
    /\ SingleTrivialItcf => spgf[Root][1] = ItcfG(1)
    /\ AlignedItcf =>
          \A i, j \in Basis : spgf[Root][1][i][j] = ItcfAverage(i, j)

(* C14 amended: slice 0 is that average up to the rounding of one product, *)
(* one quotient and one sum for each walker and of the denominator; for    *)
(* one walker whose weight is a power of two it is exactly                 *)
(* I - gab(psib, psit)                                                     *)
C14_SliceZeroUpToRounding ==
    /\ SingleTrivialItcf /\ IsPowerOfTwo(SnapshotWeight(1))
          => spgf[Root][1] = ItcfG(1)
    /\ AlignedItcf =>
          \A i, j \in Basis :
              WithinRounding(spgf[Root][1][i][j], ItcfAverage(i, j),
                             ItcfAverageSize(i, j), 4 * ItcfLen)

(* one walker of weight 5 for which (5*G)/5 is not G *)
C14_Witness ==
    /\ SingleTrivialItcf
    /\ SnapshotWeight(1) = RInt(5)
    /\ spgf[Root][1] # ItcfG(1)

(* a call of back_propagated_energy on index-aligned collections that      *)
(* returned                                                                *)
AlignedEnergy ==
    /\ Called("back_propagated_energy")
    /\ Cardinality(Lengths) = 1
    /\ ~call.raised
EnergyLen == Len(call.args[1])
CurrentWeight(k) == call.args[1][k].weight

(* local_energy of gab(wb.phi, wt.phi) of the k-th walkers of psib, psit *)
PairEnergy(k) ==
    local_energy(<<gab(call.args[3][k].phi[1], call.args[2][k].phi[1]).GAB,
                   gab(call.args[3][k].phi[2], call.args[2][k].phi[2]).GAB>>)

(* the triples PairEnergy(k), each weighted by the current walker's weight,*)
(* summed and divided by the total current weight, in exact arithmetic;    *)
(* and the same with every term replaced by its size                       *)
EnergyAverage(n) ==
    RDivX(RSumX([k \in 1..EnergyLen |-> RMulX(CurrentWeight(k), PairEnergy(k)[n])],
                EnergyLen),
          RSumX([k \in 1..EnergyLen |-> CurrentWeight(k)], EnergyLen))
EnergyAverageSize(n) ==
    RDivX(RSumX([k \in 1..EnergyLen |->
                   RMulX(CurrentWeight(k), RAbsX(PairEnergy(k)[n]))], EnergyLen),
          RSumX([k \in 1..EnergyLen |-> CurrentWeight(k)], EnergyLen))

SingleSameEnergy ==
    /\ AlignedEnergy
    /\ EnergyLen = 1
    /\ call.args[1] = call.args[2]
    /\ call.args[2] = call.args[3]

(* C15 as stated: for one walker with psi == psit == psib the result is    *)
(* exactly the triple of local_energy, whatever the weight; for aligned    *)
(* walkers it is the sum of the triples weighted by the current weights,   *)
(* divided by the total current weight                                     *)
C15_EnergyExact ==
    /\ SingleSameEnergy => call.value = PairEnergy(1)
    /\ AlignedEnergy => \A n \in 1..3 : call.value[n] = EnergyAverage(n)

(* C15 amended: the result is that weighted average up to the rounding of  *)
(* the products, sums and the final quotient; for one walker whose weight  *)
(* is a power of two it is exactly the triple of local_energy              *)
C15_EnergyUpToRounding ==
    /\ SingleSameEnergy /\ IsPowerOfTwo(CurrentWeight(1))
          => call.value = PairEnergy(1)
    /\ AlignedEnergy =>
          \A n \in 1..3 :
              /\ WithinRounding(call.value[n], EnergyAverage(n),
                                EnergyAverageSize(n), 4 * EnergyLen)
              /\ estimates[Root][ns.evar + n - 1] = call.value[n]

(* one walker of weight 3 for which (3*E)/3 is not E *)
C15_Witness ==
    /\ SingleSameEnergy
    /\ CurrentWeight(1) = RInt(3)
    /\ call.value # PairEnergy(1)

(* the recorded fields of the k-th walker of psi from position nback_prop  *)
(* onward, counted from 1 in recorded order, and their propagators         *)
ReplayCount(k) == Len(call.args[1][k].bp_auxf) - nback_prop
RecordedField(k, n) == call.args[1][k].bp_auxf[nback_prop + n]
RecordedB(k, n) == construct_propagator_matrix(RecordedField(k, n))

(* the matrix product B.G *)
LeftProduct(B, G) ==
    [i \in Basis |-> [j \in Basis |->
        FSumTo([m \in Basis |-> FMul(RInt(B[i][m]), G[m][j])], nbasis)]]

(* B_n . B_(n-1) ... B_1 . G0 of the k-th walker *)
RECURSIVE Running(_, _)
Running(k, n) ==
    IF n = 0 THEN ItcfG(k)
    ELSE LeftProduct(RecordedB(k, n), Running(k, n - 1))

(* what the first K walkers add to slice s: for each walker with at least  *)
(* s replayed fields, Running(k, s) times its snapshot weight divided by   *)
(* the total snapshot weight                                               *)
RECURSIVE SliceAfter(_, _)
SliceAfter(s, K) ==
    IF K = 0 THEN ZeroMatrix
    ELSE IF ReplayCount(K) < s THEN SliceAfter(s, K - 1)
    ELSE [i \in Basis |-> [j \in Basis |->
            FAdd(SliceAfter(s, K - 1)[i][j],
                 FDiv(FMul(SnapshotWeight(K), Running(K, s)[i][j]),
                      TotalWeight(call.args[2])))]]

(* C21: after calculate_itcf on a zeroed tensor, slice k >= 1 holds, for   *)
(* every walker with at least k replayed fields and in walker order,       *)
(* B_k ... B_1 . G0 of that walker (the fields taken from position         *)
(* nback_prop in recorded order, each propagator applied on the left)      *)
(* times its snapshot weight over the total snapshot weight; a slice       *)
(* beyond the replayed fields of every walker is left as it was            *)
C21_ReplayLeftMultiplies ==
    AlignedItcf =>
        \A s \in 1..itcf_nmax : spgf[Root][s + 1] = SliceAfter(s, ItcfLen)

(* several walkers, one of them with two replayed fields whose propagators *)
(* do not commute on its G0, and a walker that leaves slice 2 alone        *)
C21_Witness ==
    /\ AlignedItcf
    /\ ItcfLen > 1
    /\ \E k \in 1..ItcfLen : ReplayCount(k) = 1
    /\ \E k \in 1..ItcfLen :
          /\ ReplayCount(k) = 2
          /\ Running(k, 2)
                # LeftProduct(RecordedB(k, 1),
                              LeftProduct(RecordedB(k, 2), ItcfG(k)))
          /\ Running(k, 2) # LeftProduct(RecordedB(k, 2), ItcfG(k))
    /\ spgf[Root][3] # ZeroMatrix

(* the walkers of psi that the loop of calculate_itcf reached *)
Reached == 1..ZipLen(call.args)

(* C23: whatever the length of a walker's recorded history, the fields     *)
(* replayed from position nback_prop onward are at most itcf_nmax, so      *)
(* every slice index written lies in 0..itcf_nmax and the replay never     *)
(* runs past the end of the tensor                                         *)
C23_ReplayWithinTensor ==
    Called("calculate_itcf") =>
        /\ call.error # "IndexError"
        /\ call.error = "none" =>
              \A k \in Reached : ReplayCount(k) <= itcf_nmax

-----------------------------------------------------------------------------
(* Properties of the estimator accumulator *)

Constructed == construction = "constructed"
Emitted == 1..Len(out)
Totals == {ns.weight, ns.enumer, ns.edenom}
ItcfSlots == {k \in Slots : k > ns.pot}
FirstStep(k) == (k - 1) * nmeasure + 1
LastStep(k) == k * nmeasure

(* the updates one process makes in measurement block k, from a zeroed     *)
(* buffer: every step of the block, every walker of the shard in order     *)
RECURSIVE UpdateWalkers(_, _, _)
UpdateWalkers(es, shard, s) ==
    IF shard = <<>> THEN es
    ELSE UpdateWalkers(UpdateEstimates(es, Walker(Head(shard), s),
                                       importance_sampling, cplx),
                       Tail(shard), s)

RECURSIVE UpdateSteps(_, _, _, _)
UpdateSteps(es, shard, s, end) ==
    IF s > end THEN es
    ELSE UpdateSteps(UpdateWalkers(es, shard, s), shard, s + 1, end)

BlockBuffer(shard, k) ==
    UpdateSteps([j \in Slots |-> RZero], shard, FirstStep(k), LastStep(k))

(* what a single process owning every walker emits for block k *)
SerialTotals(k) == Normalise(BlockBuffer([i \in Walkers |-> i], k))

(* the term walker i adds to a total at step s, as an exact whole number *)
Term(f, i, s) ==
    LET w == WalkerWeight(i, s)
        e == WalkerEnergy(i)
    IN  IF f = ns.weight THEN w
        ELSE IF f = ns.enumer
        THEN (IF importance_sampling THEN w * e ELSE w * e * WalkerOt[i])
        ELSE (IF importance_sampling THEN w ELSE w * WalkerOt[i])

ExactTotal(f, k) ==
    SumTo([t \in 1..nmeasure |->
            SumTo([i \in Walkers |-> Term(f, i, FirstStep(k) + t - 1)],
                  nwalkers)], nmeasure)

AbsTotal(f, k) ==
    SumTo([t \in 1..nmeasure |->
            SumTo([i \in Walkers |-> Abs(Term(f, i, FirstStep(k) + t - 1))],
                  nwalkers)], nmeasure)

(* the most roundings a term goes through before it is emitted: two        *)
(* products, the additions of its process, the reduction, the division     *)
Roundings == nwalkers * nmeasure + nprocs + 2

(* C8 as stated: for a fixed walker population and sequence of updates,    *)
(* the total weight, numerator and denominator the root obtains are        *)
(* identical for every division of the walkers among 1, 2 or 4 processes,  *)
(* i.e. equal to what a single process owning all walkers obtains.         *)
C8_IdenticalTotals ==
    Constructed =>
        \A k \in Emitted : \A f \in Totals :
            out[k].line[f] = SerialTotals(k)[f]

(* C8, amended: the totals agree up to floating-point rounding.  They are  *)
(* exactly the sums over the whole population, whatever the division,      *)
(* when the magnitudes of the terms add up to no more than the mantissa    *)
(* holds; otherwise they differ from the exact sums by no more than the    *)
(* accumulated rounding error.                                             *)
C8_TotalsUpToRounding ==
    Constructed =>
        \A k \in Emitted : \A f \in Totals :
            /\ RIsFinite(out[k].line[f])
            /\ AbsTotal(f, k) <= MantissaEnd
                  => out[k].line[f] = Rat(ExactTotal(f, k), nmeasure)
            /\ Abs(out[k].line[f][1] * nmeasure
                     - ExactTotal(f, k) * out[k].line[f][2])
                  * (MantissaEnd - Roundings)
               <= Roundings * AbsTotal(f, k) * out[k].line[f][2]

(* four processes: a first block whose sums are exact, a second block      *)
(* whose total weight is not the one a single process obtains              *)
C8_Witness ==
    /\ Constructed
    /\ nprocs = 4
    /\ Len(out) >= 2
    /\ AbsTotal(ns.weight, 1) <= MantissaEnd
    /\ out[1].line[ns.weight] = SerialTotals(1)[ns.weight]
    /\ AbsTotal(ns.weight, 2) > MantissaEnd
    /\ out[2].line[ns.weight] # SerialTotals(2)[ns.weight]

(* the contributions to the reduction: those in flight and those received *)
Contributions ==
    UNION {{comm[p][n] : n \in 1..Len(comm[p])} : p \in Procs}
        \cup {out[k].recv[q] : k \in Emitted, q \in Procs}

EprojSet(b) ==
    b[ns.eproj] = FDiv(FMul(RInt(nmeasure), b[ns.enumer]),
                       FMul(RInt(nprocs), b[ns.edenom]))

WholeBufferSummed(k) ==
    \A s \in Slots :
        out[k].reduced[s] =
            FSum(out[k].recv[1][s],
                 [q \in 1..(nprocs - 1) |-> out[k].recv[q + 1][s]])

(* C9 as stated: print_step sets the projected-energy field to             *)
(* nmeasure*numerator/(nprocs*denominator), sum-reduces the whole buffer,  *)
(* and divides only the fields before the projected energy (weight,        *)
(* numerator, denominator) by nmeasure before the root emits them: the     *)
(* projected energy and the time are emitted as reduced.                   *)
C9_OnlyPreEnergyDivided ==
    Constructed =>
        /\ \A b \in Contributions : EprojSet(b)
        /\ \A k \in Emitted :
            /\ WholeBufferSummed(k)
            /\ DOMAIN out[k].line = 0..ns.time
            /\ \A s \in 0..ns.time :
                out[k].line[s] =
                    IF s < ns.eproj
                    THEN FDiv(out[k].reduced[s], RInt(nmeasure))
                    ELSE out[k].reduced[s]

(* C9, amended: as above, but the fields divided by nmeasure are those     *)
(* before the timer: weight, numerator, denominator and also the reduced   *)
(* projected energy; the time alone is emitted as reduced.                 *)
C9_PreTimerDivided ==
    Constructed =>
        /\ \A b \in Contributions : EprojSet(b)
        /\ \A k \in Emitted :
            /\ WholeBufferSummed(k)
            /\ DOMAIN out[k].line = 0..ns.time
            /\ \A s \in 0..ns.time :
                out[k].line[s] =
                    IF s < ns.time
                    THEN FDiv(out[k].reduced[s], RInt(nmeasure))
                    ELSE out[k].reduced[s]

(* two processes have reduced a block whose projected energy is a finite   *)
(* non-zero number, emitted halved                                         *)
C9_Witness ==
    /\ Constructed
    /\ nprocs = 2
    /\ Len(out) >= 1
    /\ RIsFinite(out[1].reduced[ns.eproj])
    /\ out[1].reduced[ns.eproj] # RZero
    /\ out[1].line[ns.eproj] # out[1].reduced[ns.eproj]
    /\ out[1].reduced[ns.weight] # out[1].recv[1][ns.weight]

(* a process is where zero has just returned: after construction, or       *)
(* after print_step, before any update of the next block                   *)
JustZeroed(p) ==
    \/ pc[p].at = "done"
    \/ pc[p].at = "update" /\ pc[p].idx = 1 /\ pc[p].step % nmeasure = 1

(* C10: on every process, root or not, right after construction and after  *)
(* every print_step every scalar field except the timer and every entry    *)
(* of the ITCF tensor is zero; so what a process contributes for a block   *)
(* holds the updates of that block only, and its ITCF part does not grow   *)
(* from block to block.                                                    *)
C10_ZeroedEveryBlock ==
    Constructed =>
        /\ \A p \in Procs :
            JustZeroed(p) =>
                /\ \A s \in Slots \ {ns.time} : estimates[p][s] = RZero
                /\ \A ic \in 1..(itcf_nmax + 1) : \A i, j \in Basis :
                       spgf[p][ic][i][j] = RZero
        /\ \A k \in Emitted : \A q \in Procs :
            /\ \A f \in Totals :
                   out[k].recv[q][f] = BlockBuffer(Shard(q), k)[f]
            /\ \A s \in ItcfSlots : out[k].recv[q][s] = out[1].recv[q][s]

(* a process other than the root has started its second block, after a     *)
(* first block in which it accumulated weight and ITCF entries             *)
C10_Witness ==
    /\ Constructed
    /\ Len(out) >= 1
    /\ \E p \in Procs :
        /\ p # Root
        /\ pc[p].step = nmeasure + 1
        /\ JustZeroed(p)
        /\ out[1].recv[p][ns.weight] # RZero
        /\ \E s \in ItcfSlots : out[1].recv[p][s] # RZero

(* the run is over on every process *)
RunDone == \A p \in Procs : pc[p].at = "done"

(* C17: with back-propagation disabled the accumulator is constructed,     *)
(* weight, numerator, denominator, projected energy and time have slots of *)
(* their own followed by the ITCF region, and every measurement cycle of   *)
(* the run emits its line                                                  *)
C17_ConstructedWithoutBackPropagation ==
    ~back_propagation =>
        /\ Constructed
        /\ Cardinality({ns.weight, ns.enumer, ns.edenom, ns.eproj, ns.time})
              = nestimators(FALSE) - 1
        /\ \A p \in Procs :
              DOMAIN estimates[p] = 0..(BufLen(TRUE) - 1)
        /\ RunDone => Len(out) = NBlocks

(* the reductions a process has entered so far *)
Entered(p) ==
    IF pc[p].at = "done" THEN NBlocks
    ELSE IF pc[p].at = "reduce" THEN pc[p].step \div nmeasure
    ELSE (pc[p].step - 1) \div nmeasure
(* the reductions a process has returned from *)
Returned(p) ==
    IF pc[p].at = "done" THEN NBlocks ELSE (pc[p].step - 1) \div nmeasure

(* process p can take its next step: only the root inside comm.Reduce      *)
(* waits, for the contribution of every process                            *)
CanStep(p) ==
    \/ pc[p].at \in {"update", "itcf", "print"}
    \/ pc[p].at = "reduce" /\ (p = Root => \A q \in Procs : comm[q] # <<>>)

(* the root has just returned from the reduction of block k *)
JustReduced(k) == k = Len(out) /\ JustZeroed(Root)

(* C18: when the root returns from the k-th reduction it has received,     *)
(* from every process, the buffer of that process's k-th measurement block *)
(* and nothing of another block, and the line is made of their sum; a      *)
(* process contributes once at each boundary; no process is ever stuck, so *)
(* that every reduction completes; and the lines are those of the root     *)
C18_ReductionPerBlock ==
    Constructed =>
        /\ \A k \in Emitted :
            /\ out[k].step = LastStep(k)
            /\ DOMAIN out[k].recv = Procs
            /\ JustReduced(k) =>
                /\ \A q \in Procs : \E own \in {BlockBuffer(Shard(q), k)} :
                       \A f \in Totals : out[k].recv[q][f] = own[f]
                /\ out[k].reduced = ReduceSum(out[k].recv)
        /\ \A q \in Procs : Len(out) + Len(comm[q]) = Entered(q)
        /\ Len(out) = Returned(Root)
        /\ ~RunDone => \E p \in Procs : CanStep(p)
        /\ RunDone => Len(out) = NBlocks /\ \A q \in Procs : comm[q] = <<>>

(* four processes; one has finished its run and its last contribution      *)
(* waits while the root has completed the first reduction only             *)
C18_Witness ==
    /\ Constructed
    /\ nprocs = 4
    /\ Len(out) = 1
    /\ \E q \in Procs : pc[q].at = "done" /\ Len(comm[q]) = NBlocks - 1

(* the numerator and denominator process q accumulated in block k, and     *)
(* their ratio in exact arithmetic                                         *)
LocalNumer(k, q) == out[k].recv[q][ns.enumer]
LocalDenom(k, q) == out[k].recv[q][ns.edenom]
LocalRatio(k, q) == RDivX(LocalNumer(k, q), LocalDenom(k, q))
LocalRatiosFinite(k) == \A q \in Procs : LocalDenom(k, q) # RZero

(* the arithmetic mean of the local ratios over the processes, exactly,    *)
(* and the same with every ratio replaced by its size                      *)
MeanOfRatios(k) ==
    RDivX(RSumX([q \in Procs |-> LocalRatio(k, q)], nprocs), RInt(nprocs))
MeanOfRatiosSize(k) ==
    RDivX(RSumX([q \in Procs |-> RAbsX(LocalRatio(k, q))], nprocs),
          RInt(nprocs))

(* the same mean in floating point: the ratios summed in rank order *)
FloatMeanOfRatios(k) ==
    FDiv(FSum(FDiv(LocalNumer(k, 1), LocalDenom(k, 1)),
              [q \in 1..(nprocs - 1) |->
                  FDiv(LocalNumer(k, q + 1), LocalDenom(k, q + 1))]),
         RInt(nprocs))

(* the ratio of the reduced numerator to the reduced denominator *)
RatioOfTotals(k) == RDivX(out[k].reduced[ns.enumer], out[k].reduced[ns.edenom])

(* the roundings between the local totals and the emitted value: two       *)
(* products and a quotient on each process, the sum, the final division    *)
MeanRoundings == nprocs + 3

(* C22: the projected energy the root emits for a block is the arithmetic  *)
(* mean over the processes of each process's own numerator/denominator     *)
(* ratio, up to rounding, and exactly the floating-point mean when the     *)
(* measurement count and the process count are powers of two; when a       *)
(* process has a zero denominator its ratio is not a number and neither is *)
(* the emitted value                                                       *)
C22_MeanOfLocalRatios ==
    Constructed =>
        \A k \in Emitted :
            IF LocalRatiosFinite(k)
            THEN /\ WithinRounding(out[k].line[ns.eproj], MeanOfRatios(k),
                                   MeanOfRatiosSize(k), MeanRoundings)
                 /\ IsPowerOfTwo(RInt(nmeasure)) /\ IsPowerOfTwo(RInt(nprocs))
                       => out[k].line[ns.eproj] = FloatMeanOfRatios(k)
            ELSE ~RIsFinite(out[k].line[ns.eproj])

(* two processes with one and three walkers: the emitted value is far from *)
(* the ratio of the reduced totals                                         *)
C22_Witness ==
    /\ Constructed
    /\ nprocs = 2
    /\ Cardinality({i \in Walkers : owner[i] = 1})
          # Cardinality({i \in Walkers : owner[i] = 2})
    /\ Len(out) >= 1
    /\ LocalRatiosFinite(1)
    /\ out[1].reduced[ns.edenom] # RZero
    /\ ~WithinRounding(out[1].line[ns.eproj], RatioOfTotals(1),
                       RAbsX(RatioOfTotals(1)), MeanRoundings)

====
